---- MODULE Spec2Model ----
(***************************************************************************)
(* CuaOS: the Objective Execution Loop (run_single_command), the           *)
(* Coordinate Codec (_extract_xy), the History Window (trim_history), the  *)
(* operator window's run/stop handlers and the live view's pointer mapping *)
(* (VMView._pos_to_norm), as they are written in gui_main.py and           *)
(* gui_mission_control.py, with draw_preview of vision.py.                 *)
(*                                                                         *)
(* Coordinates are Python floats in the source.  Here they are fixed-point *)
(* integers in thousandths (ONE = 1.0); the inputs drawn are even, so the  *)
(* midpoint of two of them is exact.                                       *)
(***************************************************************************)
EXTENDS Integers, Sequences, FiniteSets, TLC

(***************************************************************************)
(* Bounds and program constants                                            *)
(***************************************************************************)
\* cfg.MAX_STEPS (default 30 in the source), scaled down.
MAX_STEPS == 3
\* getattr(cfg, "MODEL_RETRY", 2)
MODEL_RETRY == 2
\* trim_history's default keep_last
KEEP_LAST == 6
\* 1.0 in thousandths
ONE == 1000
\* the 0.5 default of out.get("x", 0.5)
HALF == 500

(***************************************************************************)
(* Values a model response can hold in a field (JSON values)               *)
(***************************************************************************)
Num(n) == [t |-> "num", n |-> n, l |-> <<>>]
\* a string float() parses, such as "0.5"
NumStr(n) == [t |-> "numstr", n |-> n, l |-> <<>>]
\* a string float() does not parse
Str == [t |-> "str", n |-> 0, l |-> <<>>]
\* the key is present and holds None (JSON null)
NoneV == [t |-> "none", n |-> 0, l |-> <<>>]
\* the key is missing
Absent == [t |-> "absent", n |-> 0, l |-> <<>>]
List(l) == [t |-> "list", n |-> 0, l |-> l]

\* dict.get(key, default)
Get(v, default) == IF v.t = "absent" THEN default ELSE v

\* isinstance(v, (int, float))
IsNumber(v) == v.t = "num"
\* isinstance(v, (list, tuple))
IsList(v) == v.t = "list"
\* float(v) succeeds
Floatable(v) == v.t \in {"num", "numstr"}

AllNumbers(l) == \A i \in 1..Len(l) : IsNumber(l[i])
AllFloatable(l) == \A i \in 1..Len(l) : Floatable(l[i])
AllPairs(l) == \A i \in 1..Len(l) : IsList(l[i]) /\ Len(l[i].l) = 2

\* what a codec call produces: a point, or an exception
Point(x, y) == [raised |-> FALSE, x |-> x, y |-> y]
Raise == [raised |-> TRUE, x |-> 0, y |-> 0]

\* the box resolved to its first corner instead of its centre
center_from_bbox_corner(l) ==
    IF Len(l) = 4 /\ AllFloatable(l) THEN Point(l[1].n, l[2].n) ELSE Raise

\* _center_from_bbox: map(float, b), then the two midpoints
center_from_bbox(l) ==
    IF Len(l) = 4 /\ AllFloatable(l)
    THEN Point((l[1].n + l[3].n) \div 2, (l[2].n + l[4].n) \div 2)
    ELSE Raise

\* float(a), float(b)
FloatPair(a, b) == IF Floatable(a) /\ Floatable(b) THEN Point(a.n, b.n) ELSE Raise

\* the nested pair [[x1,y1],[x2,y2]]
NestedCenter(l) ==
    IF AllFloatable(l[1].l) /\ AllFloatable(l[2].l)
    THEN Point((l[1].l[1].n + l[2].l[1].n) \div 2, (l[1].l[2].n + l[2].l[2].n) \div 2)
    ELSE Raise

\* the position branch, the same in both files; matched is FALSE when it falls through
FromPosition(pos) ==
    IF pos.t \in {"none", "absent"} \/ ~IsList(pos) THEN [matched |-> FALSE, p |-> Raise]
    ELSE IF Len(pos.l) = 2 /\ AllNumbers(pos.l)
         THEN [matched |-> TRUE, p |-> Point(pos.l[1].n, pos.l[2].n)]
    ELSE IF Len(pos.l) = 4 /\ AllNumbers(pos.l)
         THEN [matched |-> TRUE, p |-> center_from_bbox(pos.l)]
    ELSE IF Len(pos.l) = 2 /\ AllPairs(pos.l)
         THEN [matched |-> TRUE, p |-> NestedCenter(pos.l)]
    ELSE [matched |-> FALSE, p |-> Raise]

\* gui_main.py: a list in x or y is used only when all its elements are numbers
FromListMain(v) ==
    IF ~IsList(v) THEN [matched |-> FALSE, p |-> Raise]
    ELSE IF Len(v.l) = 2 /\ AllNumbers(v.l)
         THEN [matched |-> TRUE, p |-> Point(v.l[1].n, v.l[2].n)]
    ELSE IF Len(v.l) = 4 /\ AllNumbers(v.l)
         THEN [matched |-> TRUE, p |-> center_from_bbox(v.l)]
    ELSE [matched |-> FALSE, p |-> Raise]

\* gui_mission_control.py: a list in x or y of length 2 or 4 is converted unchecked
FromListMc(v) ==
    IF ~IsList(v) THEN [matched |-> FALSE, p |-> Raise]
    ELSE IF Len(v.l) = 2
         THEN [matched |-> TRUE, p |-> FloatPair(v.l[1], v.l[2])]
    ELSE IF Len(v.l) = 4
         THEN [matched |-> TRUE, p |-> center_from_bbox(v.l)]
    ELSE [matched |-> FALSE, p |-> Raise]

\* _extract_xy of gui_main.py
extract_xy_main(out) ==
    LET x == Get(out.x, Num(HALF))
        y == Get(out.y, Num(HALF))
        fp == FromPosition(out.position)
        fx == FromListMain(x)
        fy == FromListMain(y)
    IN  IF fp.matched THEN fp.p
        ELSE IF fx.matched THEN fx.p
        ELSE IF fy.matched THEN fy.p
        ELSE FloatPair(x, y)

\* _extract_xy of gui_mission_control.py
extract_xy_mc(out) ==
    LET x == Get(out.x, Num(HALF))
        y == Get(out.y, Num(HALF))
        fp == FromPosition(out.position)
        fx == FromListMc(x)
        fy == FromListMc(y)
    IN  IF fp.matched THEN fp.p
        ELSE IF fx.matched THEN fx.p
        ELSE IF fy.matched THEN fy.p
        ELSE FloatPair(x, y)

\* the codec the running front end uses
extract_xy(fe, out) == IF fe = "main" THEN extract_xy_main(out) ELSE extract_xy_mc(out)

\* the window taken from the front of the history instead of its end
trim_history_head(history, keep_last) ==
    IF Len(history) <= keep_last THEN history
    ELSE SubSeq(history, 1, keep_last)

\* trim_history(history, keep_last): history[-keep_last:] when longer
trim_history(history, keep_last) ==
    IF Len(history) <= keep_last THEN history
    ELSE IF keep_last = 0 THEN history
    ELSE SubSeq(history, Len(history) - keep_last + 1, Len(history))

(***************************************************************************)
(* guards.py is not among the sources: the validator and the Repeat Guard  *)
(* follow sections 4.2, 4.3 and 8 of the specification.                    *)
(***************************************************************************)
\* a validator that refuses the boundary values 0 and 1
validate_xy_open(x, y) == 0 < x /\ x < ONE /\ 0 < y /\ y < ONE

\* validate_xy(x, y): both components in [0,1]
validate_xy(x, y) == 0 <= x /\ x <= ONE /\ 0 <= y /\ y <= ONE

\* the coordinate tolerance of the Repeat Guard, about 1% of the span
REPEAT_TOL == 10
\* the number of occurrences at which the Repeat Guard stops the run
REPEAT_LIMIT == 3

Abs(n) == IF n < 0 THEN -n ELSE n

\* str.upper() on the action names the model produces
Upper(s) ==
    CASE s = "click" -> "CLICK"
      [] s = "bitti" -> "BITTI"
      [] OTHER -> s

\* the kind the Repeat Guard compares: (a.get("action") or "").upper()
KindOf(a) == Upper(a.action)

\* two actions the Repeat Guard takes for the same one
SameAction(a, b) ==
    /\ KindOf(a) = KindOf(b)
    /\ KindOf(a) \in {"CLICK", "DOUBLE_CLICK", "RIGHT_CLICK"} =>
          /\ IsNumber(a.x) /\ IsNumber(a.y) /\ IsNumber(b.x) /\ IsNumber(b.y)
          /\ Abs(a.x.n - b.x.n) <= REPEAT_TOL
          /\ Abs(a.y.n - b.y.n) <= REPEAT_TOL
    /\ KindOf(a) = "TYPE" => a.text = b.text

\* the guard waiting for one occurrence more
should_stop_late(history, cand) ==
    /\ Len(history) >= REPEAT_LIMIT
    /\ \A i \in (Len(history) - REPEAT_LIMIT + 1)..Len(history) :
          SameAction(history[i], cand)

\* should_stop_on_repeat(GuardArg(history), out): the candidate would be the REPEAT_LIMIT-th
\* consecutive occurrence of the same action
should_stop_on_repeat(history, cand) ==
    /\ Len(history) >= REPEAT_LIMIT - 1
    /\ \A i \in (Len(history) - REPEAT_LIMIT + 2)..Len(history) :
          SameAction(history[i], cand)

(***************************************************************************)
(* Model responses                                                         *)
(***************************************************************************)
Resp(action, x, y, position, text) ==
    [action |-> action, x |-> x, y |-> y, position |-> position, text |-> text]

rClickA == Resp("CLICK", Num(500), Num(500), Absent, "")
\* the same target with jitter inside the tolerance
rClickA2 == Resp("CLICK", Num(506), Num(500), Absent, "")
rClickBad == Resp("CLICK", Num(1200), Num(300), Absent, "")
rDone == Resp("BITTI", Absent, Absent, Absent, "")
\* a bounding box whose centre is (0.8, 0.2)
rDoubleBox ==
    Resp("DOUBLE_CLICK", Absent, Absent, List(<<Num(600), Num(0), Num(1000), Num(400)>>), "")
\* a nested pair whose centre is (-0.2, 0.1), beside valid x and y
rRightBadNested ==
    Resp("RIGHT_CLICK", Num(500), Num(500),
         List(<<List(<<Num(-400), Num(0)>>), List(<<Num(0), Num(200)>>)>>), "")
rType == Resp("TYPE", Num(1200), Absent, Absent, "a")
rDoneLower == Resp("bitti", Absent, Absent, Absent, "")
rClickStr == Resp("click", Str, Num(500), Absent, "")
rRightEdge == Resp("RIGHT_CLICK", Num(1000), Num(0), Absent, "")
rDoubleBad == Resp("DOUBLE_CLICK", Num(-100), Num(900), Absent, "")
\* x holds a pair with a numeric string: the two codecs differ on it
rClickListX == Resp("CLICK", List(<<NumStr(200), Num(400)>>), Absent, Absent, "")
\* no action field: (out.get("action") or "NOOP")
rNoop == Resp("", Absent, Absent, Absent, "")

\* the responses a run's model draws from, one menu per run
Menus ==
    << {rClickA, rClickA2, rClickBad, rDone},
       {rDoubleBox, rRightBadNested, rType, rDoneLower, rClickStr},
       {rRightEdge, rDoubleBad, rClickListX, rNoop},
       {rClickA, rClickBad, rDone} >>

\* the menus of a run of the loop on its own, and of a run started from the window
LoopMenus == {1, 2, 3}
GuiMenus == {4}

(***************************************************************************)
(* State                                                                   *)
(***************************************************************************)
VARIABLES
    fe,          \* the front end running: "main" (gui_main.py) or "mc" (gui_mission_control.py)
    menu,        \* the menu the model of the current run answers from
    pc,          \* the worker's position
    step,        \* run_single_command: step
    attempt,     \* run_single_command: attempt of the retry loop
    out,         \* run_single_command: out (NoneOut for None)
    history,     \* run_single_command: history
    result,      \* the string run_single_command returned ("" while it has not)
    raised,      \* the call whose exception left run_single_command ("" for none)
    resp,        \* the last response ask_next_action returned
    asked,       \* the history argument of the last ask_next_action call
    executed,    \* the actions passed to execute_action that returned, in order
    ncap,        \* capture_screen calls of the run
    nmodel,      \* ask_next_action calls of the run
    nask,        \* ask_next_action calls of the current step
    nguard,      \* should_stop_on_repeat calls of the run
    checked,     \* the step whose stop check has passed
    guarded,     \* the history argument of the last should_stop_on_repeat call
    w_event,     \* the Event the run was given as stop_event ("none" for None)
    stop_step,   \* the step in progress when the run's Event was set (-1: not set)
    stop_event,  \* the window's self.stop_event ("none" for None)
    flags,       \* Event id -> is_set()
    nworkers,    \* worker threads alive
    last_log,    \* the last line a window handler appended to the log
    backend,     \* the window's sandbox and llm, as _init_backend left them
    report,      \* what the worker emitted when its run was over ("" before that)
    quit,        \* QApplication.quit() was called
    busyq,       \* busy(False) notifications emitted by workers and not yet delivered
    ctl_busy,    \* the busy value last applied to the run, stop and command controls
    interval,    \* the interval of the frame-refresh timer, in milliseconds
    view,        \* the window has its VMView
    human,       \* "sent" once the view has sent an input event on since the last run began
    emits,       \* the busy values emitted for the last run started, in order
    call,        \* a function called on its own: its name and arguments
    ret,         \* what that call returned (NoRet while it has not)
    input_enabled, \* VMView.input_enabled
    pressed_btn, \* VMView._pressed_btn (0 for None)
    last_move_ts, \* VMView._last_move_ts, in milliseconds
    now,         \* time.monotonic(), in milliseconds
    events,      \* the input events the view has received, in order
    calls        \* the sandbox calls the view's handlers have made, in order

loopVars == <<pc, step, attempt, out, history, result, raised, resp, asked, executed,
              ncap, nmodel, nask, nguard, checked, guarded>>
busyVars == <<busyq, ctl_busy, interval, view, human, emits>>
guiVars == <<stop_event, nworkers, last_log, backend, report, quit, busyVars>>
pureVars == <<call, ret>>
viewVars == <<input_enabled, pressed_btn, last_move_ts, now, events, calls>>
vars == <<fe, menu, loopVars, w_event, stop_step, flags, guiVars, pureVars, viewVars>>

NoneOut == [none |-> TRUE]
\* no function is being called on its own
NoCall == [f |-> "none"]
NoRet == [pending |-> TRUE]
\* the Event objects that can be live at once: the window's and the worker's
EventIds == {"e0", "e1"}

\* self.timer.start(350); self.timer.setInterval(650 if busy else 350)
FAST_MS == 350
SLOW_MS == 650

\* the window as constructed: controls enabled, the timer fast, nothing queued
WindowIdle ==
    /\ busyq = 0
    /\ ctl_busy = FALSE
    /\ interval = FAST_MS
    /\ human = ""
    /\ emits = <<>>

\* the window as _on_run leaves it when it has started a worker
WindowBusy ==
    /\ busyq = 0
    /\ ctl_busy = TRUE
    /\ interval = SLOW_MS
    /\ human = ""
    /\ emits = <<TRUE>>

\* the view while a worker started from the window runs: as constructed, but for its
\* input, switched off by the busy handler
ViewBusy ==
    /\ input_enabled = FALSE
    /\ pressed_btn = 0
    /\ last_move_ts = 0
    /\ now = 0
    /\ events = <<>>
    /\ calls = <<>>

\* VMView.__init__: input enabled, no button held, no move forwarded yet
ViewConstructed ==
    /\ input_enabled = TRUE
    /\ pressed_btn = 0
    /\ last_move_ts = 0
    /\ now = 0
    /\ events = <<>>
    /\ calls = <<>>

\* the coordinate check with DOUBLE_CLICK left out of its tuple
PointerKindsNoDouble == {"CLICK", "RIGHT_CLICK"}

\* the coordinate check applied to TYPE as well
PointerKindsWithType == {"CLICK", "DOUBLE_CLICK", "RIGHT_CLICK", "TYPE"}

\* the tuple ("CLICK", "DOUBLE_CLICK", "RIGHT_CLICK") of the coordinate check
PointerKinds == {"CLICK", "DOUBLE_CLICK", "RIGHT_CLICK"}

\* the action name compared without .upper()
ActionOfNoUpper(r) == IF r.action = "" THEN "NOOP" ELSE r.action

\* (out.get("action") or "NOOP").upper()
ActionOf(r) == Upper(IF r.action = "" THEN "NOOP" ELSE r.action)

\* one attempt too many: range(MODEL_RETRY + 2)
RetryExhaustedLate(a) == a + 1 > MODEL_RETRY + 1

\* range(MODEL_RETRY + 1) is used up after the attempt numbered a
RetryExhausted(a) == a + 1 > MODEL_RETRY

\* the step limit tested with >= instead of >
StepsExhaustedEarly(s) == s >= MAX_STEPS

\* if step > MAX_STEPS, on the incremented step s
StepsExhausted(s) == s > MAX_STEPS

\* the stop check left out of the loop head
StopRequestedNever == FALSE

\* stop_event and stop_event.is_set()
StopRequested == w_event # "none" /\ flags[w_event]

\* the step in progress: at a step boundary the last one completed
StepInProgress == IF pc \in {"start", "top"} THEN step - 1 ELSE step

\* the locals of run_single_command at its entry
LoopEntry ==
    /\ step = 1
    /\ attempt = 0
    /\ out = NoneOut
    /\ history = <<>>
    /\ result = ""
    /\ raised = ""
    /\ resp = NoneOut
    /\ asked = <<>>
    /\ executed = <<>>
    /\ ncap = 0 /\ nmodel = 0 /\ nask = 0 /\ nguard = 0
    /\ checked = 0
    /\ guarded = <<>>

(***************************************************************************)
(* run_single_command                                                      *)
(***************************************************************************)
\* while True: if stop_event and stop_event.is_set(): return "STOPPED"
CheckStop ==
    /\ ~quit
    /\ pc = "top"
    /\ IF StopRequested
       THEN /\ result' = "STOPPED"
            /\ pc' = "ret"
            /\ UNCHANGED checked
       ELSE /\ pc' = "pace"
            /\ checked' = step
            /\ UNCHANGED result
    /\ UNCHANGED <<step, attempt, out, history, raised, resp, asked, executed,
                   ncap, nmodel, nask, nguard>>
    /\ UNCHANGED <<guarded, viewVars, pureVars, fe, menu, w_event, stop_step, flags, guiVars>>

\* time.sleep(WAIT_BEFORE_SCREENSHOT_SEC)
Pace ==
    /\ ~quit
    /\ pc = "pace"
    /\ pc' = "capture"
    /\ UNCHANGED <<step, attempt, out, history, result, raised, resp, asked, executed,
                   ncap, nmodel, nask, nguard, checked>>
    /\ UNCHANGED <<guarded, viewVars, pureVars, fe, menu, w_event, stop_step, flags, guiVars>>

\* img = capture_screen(...); out = None; the retry loop begins
Capture ==
    /\ ~quit
    /\ pc = "capture"
    /\ ncap' = ncap + 1
    /\ out' = NoneOut
    /\ attempt' = 0
    /\ nask' = 0
    /\ pc' = "ask"
    /\ UNCHANGED <<step, history, result, raised, resp, asked, executed, nmodel, nguard, checked>>
    /\ UNCHANGED <<guarded, viewVars, pureVars, fe, menu, w_event, stop_step, flags, guiVars>>

\* capture_screen raises
CaptureFails ==
    /\ ~quit
    /\ pc = "capture"
    /\ ncap' = ncap + 1
    /\ raised' = "capture"
    /\ pc' = "ret"
    /\ UNCHANGED <<step, attempt, out, history, result, resp, asked, executed,
                   nmodel, nask, nguard, checked>>
    /\ UNCHANGED <<guarded, viewVars, pureVars, fe, menu, w_event, stop_step, flags, guiVars>>

\* one pass of: for attempt in range(MODEL_RETRY + 1), with
\* out = ask_next_action(llm, objective, path, trim_history(history)) returning r
AskModel(r) ==
    /\ ~quit
    /\ pc = "ask"
    /\ nmodel' = nmodel + 1
    /\ nask' = nask + 1
    /\ resp' = r
    /\ asked' = trim_history(history, KEEP_LAST)
    /\ LET action == ActionOf(r)
           p == extract_xy(fe, r)
       IN  IF action = "BITTI"
           THEN /\ result' = "DONE(BITTI)"
                /\ pc' = "ret"
                /\ UNCHANGED <<out, history, attempt, raised>>
           ELSE IF action \in PointerKinds
           THEN IF p.raised
                THEN /\ raised' = "codec"
                     /\ pc' = "ret"
                     /\ UNCHANGED <<out, history, attempt, result>>
                ELSE IF validate_xy(p.x, p.y)
                THEN /\ out' = [r EXCEPT !.x = Num(p.x), !.y = Num(p.y)]
                     /\ pc' = "guard"
                     /\ UNCHANGED <<history, attempt, result, raised>>
                ELSE /\ history' = Append(history, [action |-> "INVALID_COORDS", raw |-> r])
                     /\ out' = NoneOut
                     /\ attempt' = attempt + 1
                     /\ pc' = IF RetryExhausted(attempt) THEN "guard" ELSE "ask"
                     /\ UNCHANGED <<result, raised>>
           ELSE /\ out' = r
                /\ pc' = "guard"
                /\ UNCHANGED <<history, attempt, result, raised>>
    /\ UNCHANGED <<step, executed, ncap, nguard, checked>>
    /\ UNCHANGED <<guarded, viewVars, pureVars, fe, menu, w_event, stop_step, flags, guiVars>>

\* ask_next_action raises
ModelFails ==
    /\ ~quit
    /\ pc = "ask"
    /\ nmodel' = nmodel + 1
    /\ nask' = nask + 1
    /\ asked' = trim_history(history, KEEP_LAST)
    /\ raised' = "model"
    /\ pc' = "ret"
    /\ UNCHANGED <<step, attempt, out, history, result, resp, executed, ncap, nguard, checked>>
    /\ UNCHANGED <<guarded, viewVars, pureVars, fe, menu, w_event, stop_step, flags, guiVars>>

\* the guard given the history the model is given
GuardArgTrimmed(h) == trim_history(h, KEEP_LAST)

\* should_stop_on_repeat(history, out): the history argument
GuardArg(h) == h

\* the guard's verdict dropped: the action is executed whatever it says
GuardIgnoresRepeat ==
    /\ ~quit
    /\ pc = "guard"
    /\ IF out = NoneOut
       THEN /\ result' = "ERROR(no valid action)"
            /\ pc' = "ret"
            /\ UNCHANGED <<nguard, guarded>>
       ELSE /\ nguard' = nguard + 1
            /\ guarded' = GuardArg(history)
            /\ pc' = "exec"
            /\ UNCHANGED result
    /\ UNCHANGED <<step, attempt, out, history, raised, resp, asked, executed,
                   ncap, nmodel, nask, checked>>
    /\ UNCHANGED <<viewVars, pureVars, fe, menu, w_event, stop_step, flags, guiVars>>

\* a second stop check in the middle of the step, before the guard
GuardChecksStop ==
    /\ ~quit
    /\ pc = "guard"
    /\ IF w_event # "none" /\ flags[w_event]
       THEN /\ result' = "STOPPED"
            /\ pc' = "ret"
            /\ UNCHANGED <<nguard, guarded>>
       ELSE IF out = NoneOut
       THEN /\ result' = "ERROR(no valid action)"
            /\ pc' = "ret"
            /\ UNCHANGED <<nguard, guarded>>
       ELSE /\ nguard' = nguard + 1
            /\ guarded' = GuardArg(history)
            /\ IF should_stop_on_repeat(GuardArg(history), out)
               THEN /\ result' = "DONE(repeat-guard)"
                    /\ pc' = "ret"
               ELSE /\ pc' = "exec"
                    /\ UNCHANGED result
    /\ UNCHANGED <<step, attempt, out, history, raised, resp, asked, executed,
                   ncap, nmodel, nask, checked>>
    /\ UNCHANGED <<viewVars, pureVars, fe, menu, w_event, stop_step, flags, guiVars>>

\* if out is None: return ERROR; stop, why = should_stop_on_repeat(GuardArg(history), out)
Guard ==
    /\ ~quit
    /\ pc = "guard"
    /\ IF out = NoneOut
       THEN /\ result' = "ERROR(no valid action)"
            /\ pc' = "ret"
            /\ UNCHANGED <<nguard, guarded>>
       ELSE /\ nguard' = nguard + 1
            /\ guarded' = GuardArg(history)
            /\ IF should_stop_on_repeat(GuardArg(history), out)
               THEN /\ result' = "DONE(repeat-guard)"
                    /\ pc' = "ret"
               ELSE /\ pc' = "exec"
                    /\ UNCHANGED result
    /\ UNCHANGED <<step, attempt, out, history, raised, resp, asked, executed,
                   ncap, nmodel, nask, checked>>
    /\ UNCHANGED <<viewVars, pureVars, fe, menu, w_event, stop_step, flags, guiVars>>

\* the executed action left out of history
ExecuteForgets ==
    /\ ~quit
    /\ pc = "exec"
    /\ executed' = Append(executed, out)
    /\ step' = step + 1
    /\ IF StepsExhausted(step + 1)
       THEN /\ result' = "DONE(max-steps)"
            /\ pc' = "ret"
       ELSE /\ pc' = "top"
            /\ UNCHANGED result
    /\ UNCHANGED <<attempt, out, history, raised, resp, asked, ncap, nmodel, nask, nguard,
                   checked>>
    /\ UNCHANGED <<guarded, viewVars, pureVars, fe, menu, w_event, stop_step, flags, guiVars>>

\* execute_action(sandbox, out); history.append(out); step += 1; the MAX_STEPS test
Execute ==
    /\ ~quit
    /\ pc = "exec"
    /\ executed' = Append(executed, out)
    /\ history' = Append(history, out)
    /\ step' = step + 1
    /\ IF StepsExhausted(step + 1)
       THEN /\ result' = "DONE(max-steps)"
            /\ pc' = "ret"
       ELSE /\ pc' = "top"
            /\ UNCHANGED result
    /\ UNCHANGED <<attempt, out, raised, resp, asked, ncap, nmodel, nask, nguard, checked>>
    /\ UNCHANGED <<guarded, viewVars, pureVars, fe, menu, w_event, stop_step, flags, guiVars>>

\* execute_action raises
ActuationFails ==
    /\ ~quit
    /\ pc = "exec"
    /\ raised' = "actuation"
    /\ pc' = "ret"
    /\ UNCHANGED <<step, attempt, out, history, result, resp, asked, executed,
                   ncap, nmodel, nask, nguard, checked>>
    /\ UNCHANGED <<guarded, viewVars, pureVars, fe, menu, w_event, stop_step, flags, guiVars>>

\* some thread calls stop_event.set() while the run is in the loop
SetStop ==
    /\ ~quit
    /\ pc \in {"top", "pace", "capture", "ask", "guard", "exec"}
    /\ w_event # "none"
    /\ ~flags[w_event]
    /\ flags' = [flags EXCEPT ![w_event] = TRUE]
    /\ stop_step' = StepInProgress
    /\ UNCHANGED <<viewVars, pureVars, fe, menu, loopVars, w_event, guiVars>>

LoopNext ==
    \/ CheckStop
    \/ Pace
    \/ Capture
    \/ CaptureFails
    \/ \E r \in Menus[menu] : AskModel(r)
    \/ ModelFails
    \/ Guard
    \/ Execute
    \/ ActuationFails

\* run_single_command called on its own, with or without a stop_event
InitLoop ==
    /\ fe \in {"main", "mc"}
    /\ menu \in LoopMenus
    /\ pc = "top"
    /\ LoopEntry
    /\ w_event \in {"none", "e0"}
    /\ stop_step = -1
    /\ stop_event = w_event
    /\ flags = [i \in EventIds |-> FALSE]
    /\ nworkers = 1
    /\ last_log = ""
    /\ backend = "both"
    /\ report = ""
    /\ call = NoCall
    /\ ret = NoRet
    /\ ViewBusy
    /\ WindowBusy
    /\ view = TRUE
    /\ quit = FALSE

SpecLoop == InitLoop /\ [][LoopNext \/ SetStop]_vars

(***************************************************************************)
(* The operator window: _on_run, its worker thread, _on_stop               *)
(***************************************************************************)
\* what the objective text (after translation, in gui_main.py) can be
Objectives == {"", "shutdown", "task"}

\* the busy(False) notifications that can wait for delivery at once
MaxPending == 2

\* the is_alive() test left out of _on_run
WorkerAliveNever == FALSE

\* self.worker_thread and self.worker_thread.is_alive()
WorkerAlive == nworkers > 0

\* threading.Event(): an object distinct from the one a live worker holds
NewEvent == IF w_event = "e0" \/ (pc = "start" /\ stop_event = "e0") THEN "e1" ELSE "e0"

\* self.llm, self.sandbox of the mission control window
HasLlm == backend \in {"both", "llm_only"}
HasSandbox == backend \in {"sb", "both", "sb_only"}

\* the busy handler of the window, called with b: _set_busy in gui_main.py, _on_busy
\* in gui_mission_control.py, which writes input_enabled only if it has its view
SetBusy(b) ==
    /\ ctl_busy' = b
    /\ interval' = IF b THEN SLOW_MS ELSE FAST_MS
    /\ input_enabled' = IF view THEN ~b ELSE input_enabled
    /\ UNCHANGED <<pressed_btn, last_move_ts, now, events, calls, view>>

\* the tail of _on_run: a new Event, busy.emit(True) delivered at once to the busy
\* handler, the log line, the worker thread started
StartWorker ==
    /\ busyq < MaxPending
    /\ SetBusy(TRUE)
    /\ emits' = <<TRUE>>
    /\ human' = ""
    /\ UNCHANGED busyq
    /\ stop_event' = NewEvent
    /\ flags' = [flags EXCEPT ![NewEvent] = FALSE]
    /\ last_log' = "started"
    /\ nworkers' = nworkers + 1
    /\ pc' = "start"
    /\ menu' \in GuiMenus
    /\ step' = 1
    /\ attempt' = 0
    /\ out' = NoneOut
    /\ history' = <<>>
    /\ result' = ""
    /\ raised' = ""
    /\ resp' = NoneOut
    /\ asked' = <<>>
    /\ executed' = <<>>
    /\ ncap' = 0 /\ nmodel' = 0 /\ nask' = 0 /\ nguard' = 0
    /\ checked' = 0
    /\ guarded' = <<>>
    /\ stop_step' = -1
    /\ report' = ""
    /\ UNCHANGED <<pureVars, fe, w_event, backend, quit>>

\* a handler that only appends a line to the log
LogOnly(line) ==
    /\ last_log' = line
    /\ UNCHANGED <<viewVars, pureVars, fe, menu, loopVars, w_event, stop_step, flags,
                   stop_event, nworkers, backend, report, quit, busyVars>>

\* AgentWindow._on_run, the translated objective being o; it is connected to the run
\* button and to the command input, which _set_busy(True) disables
OnRunMain(o) ==
    /\ ~quit
    /\ fe = "main"
    /\ ~ctl_busy
    /\ IF o = "" THEN LogOnly("empty")
       ELSE IF o = "shutdown"
       THEN /\ last_log' = "quit"
            /\ quit' = TRUE
            /\ UNCHANGED <<viewVars, pureVars, fe, menu, loopVars, w_event, stop_step, flags,
                           stop_event, nworkers, backend, report, busyVars>>
       ELSE IF WorkerAlive THEN LogOnly("busy")
       ELSE StartWorker

\* MissionControlWindow._on_run(objective), called by _shortcut_run on Ctrl+Return
\* with the text of the command input, or by the command panel
OnRunMc(o) ==
    /\ ~quit
    /\ fe = "mc"
    /\ IF o = "" THEN LogOnly("empty")
       ELSE IF WorkerAlive THEN LogOnly("busy")
       ELSE IF ~HasLlm THEN LogOnly("nollm")
       ELSE IF ~HasSandbox THEN LogOnly("nosandbox")
       ELSE StartWorker

\* _on_stop: if self.stop_event: self.stop_event.set(), and the log line
OnStop ==
    /\ ~quit
    /\ fe = "main" => ctl_busy
    /\ stop_event # "none"
    /\ flags' = [flags EXCEPT ![stop_event] = TRUE]
    /\ last_log' = "stop"
    /\ stop_step' =
          IF /\ pc \in {"start", "top", "pace", "capture", "ask", "guard", "exec"}
             /\ (pc = "start" \/ w_event = stop_event)
             /\ ~flags[stop_event]
          THEN StepInProgress ELSE stop_step
    /\ UNCHANGED <<viewVars, pureVars, fe, menu, loopVars, w_event, stop_event, nworkers,
                   backend, report, quit, busyVars>>

\* worker(): run_single_command(..., stop_event=self.stop_event) is entered
WorkerBegin ==
    /\ ~quit
    /\ pc = "start"
    /\ w_event' = stop_event
    /\ pc' = "top"
    /\ UNCHANGED <<step, attempt, out, history, result, raised, resp, asked, executed,
                   ncap, nmodel, nask, nguard, checked, guarded>>
    /\ UNCHANGED <<viewVars, pureVars, fe, menu, stop_step, flags, guiVars>>

\* a worker that emits finished whether or not run_single_command raised
WorkerEndSwallows ==
    /\ ~quit
    /\ pc = "ret"
    /\ pc' = "idle"
    /\ nworkers' = nworkers - 1
    /\ w_event' = "none"
    /\ report' = "finished"
    /\ UNCHANGED <<step, attempt, out, history, result, raised, resp, asked, executed,
                   ncap, nmodel, nask, nguard, checked, guarded>>
    /\ busyq' = busyq + 1
    /\ emits' = Append(emits, FALSE)
    /\ UNCHANGED <<ctl_busy, interval, view, human>>
    /\ UNCHANGED <<viewVars, pureVars, fe, menu, stop_step, flags, stop_event, last_log, backend, quit>>

\* a worker that emits busy(False) only after run_single_command returned
WorkerEndNoFinally ==
    /\ ~quit
    /\ pc = "ret"
    /\ pc' = "idle"
    /\ nworkers' = nworkers - 1
    /\ w_event' = "none"
    /\ report' = IF raised # "" THEN "error" ELSE "finished"
    /\ UNCHANGED <<step, attempt, out, history, result, raised, resp, asked, executed,
                   ncap, nmodel, nask, nguard, checked, guarded>>
    /\ busyq' = IF raised # "" THEN busyq ELSE busyq + 1
    /\ emits' = IF raised # "" THEN emits ELSE Append(emits, FALSE)
    /\ UNCHANGED <<ctl_busy, interval, view, human>>
    /\ UNCHANGED <<viewVars, pureVars, fe, menu, stop_step, flags, stop_event, last_log, backend, quit>>

\* worker(): finished is emitted with the result, or, in except Exception, the log
\* line with the traceback; finally busy(False), and the thread ends
WorkerEnd ==
    /\ ~quit
    /\ pc = "ret"
    /\ pc' = "idle"
    /\ nworkers' = nworkers - 1
    /\ w_event' = "none"
    /\ report' = IF raised # "" THEN "error" ELSE "finished"
    /\ UNCHANGED <<step, attempt, out, history, result, raised, resp, asked, executed,
                   ncap, nmodel, nask, nguard, checked, guarded>>
    /\ busyq' = busyq + 1
    /\ emits' = Append(emits, FALSE)
    /\ UNCHANGED <<ctl_busy, interval, view, human>>
    /\ UNCHANGED <<viewVars, pureVars, fe, menu, stop_step, flags, stop_event, last_log, backend, quit>>

\* _init_backend: self.sandbox = Sandbox(cfg), or the constructor raises
InitSandbox ==
    /\ ~quit
    /\ backend = "init"
    /\ \/ backend' = "sb" /\ view' \in BOOLEAN
       \/ backend' = "nosb" /\ view' = FALSE
    /\ UNCHANGED <<busyq, ctl_busy, interval, human, emits>>
    /\ UNCHANGED <<viewVars, pureVars, fe, menu, loopVars, w_event, stop_step, flags,
                   stop_event, nworkers, last_log, report, quit>>

\* _init_backend: self.llm = load_llm(), or it raises
InitLlm ==
    /\ ~quit
    /\ backend \in {"sb", "nosb"}
    /\ backend' \in IF backend = "sb" THEN {"both", "sb_only"} ELSE {"llm_only", "neither"}
    /\ UNCHANGED <<viewVars, pureVars, fe, menu, loopVars, w_event, stop_step, flags,
                   stop_event, nworkers, last_log, report, quit, busyVars>>

Init ==
    /\ fe \in {"main", "mc"}
    /\ menu \in GuiMenus
    /\ pc = "idle"
    /\ LoopEntry
    /\ w_event = "none"
    /\ stop_step = -1
    /\ stop_event = "none"
    /\ flags = [i \in EventIds |-> FALSE]
    /\ nworkers = 0
    /\ last_log = ""
    /\ backend = IF fe = "main" THEN "both" ELSE "init"
    /\ report = ""
    /\ call = NoCall
    /\ ret = NoRet
    /\ ViewConstructed
    /\ WindowIdle
    /\ view = (fe = "main")
    /\ quit = FALSE

\* the event loop delivers a queued busy(False) to the busy handler
DeliverBusy ==
    /\ ~quit
    /\ busyq > 0
    /\ busyq' = busyq - 1
    /\ SetBusy(FALSE)
    /\ UNCHANGED <<human, emits>>
    /\ UNCHANGED <<pureVars, fe, menu, loopVars, w_event, stop_step, flags,
                   stop_event, nworkers, last_log, backend, report, quit>>

\* the view receives an input event: wheelEvent, which, as every handler of the view,
\* returns at once unless input_enabled, and calls the sandbox otherwise
ViewInput ==
    /\ ~quit
    /\ view
    /\ human' = IF input_enabled THEN "sent" ELSE human
    /\ UNCHANGED <<busyq, ctl_busy, interval, view, emits>>
    /\ UNCHANGED <<viewVars, pureVars, fe, menu, loopVars, w_event, stop_step, flags,
                   stop_event, nworkers, last_log, backend, report, quit>>

Next ==
    \/ \E o \in Objectives : OnRunMain(o)
    \/ \E o \in Objectives : OnRunMc(o)
    \/ OnStop
    \/ WorkerBegin
    \/ WorkerEnd
    \/ InitSandbox
    \/ InitLlm
    \/ DeliverBusy
    \/ ViewInput
    \/ LoopNext

Spec == Init /\ [][Next]_vars

\* the window with its threads scheduled: the worker thread takes its steps, and the
\* event loop of the window delivers what is queued
SpecFair ==
    /\ Spec
    /\ WF_vars(WorkerBegin)
    /\ WF_vars(LoopNext)
    /\ WF_vars(WorkerEnd)
    /\ WF_vars(DeliverBusy)

(***************************************************************************)
(* Properties of run_single_command                                        *)
(***************************************************************************)
IsPointer(a) == Upper(a.action) \in {"CLICK", "DOUBLE_CLICK", "RIGHT_CLICK"}
IsInvalidEntry(e) == e.action = "INVALID_COORDS"
InUnit(v) == IsNumber(v) /\ 0 <= v.n /\ v.n <= ONE
PointerOk(a) == IsPointer(a) => InUnit(a.x) /\ InUnit(a.y)
IsDoneKind(r) == r # NoneOut /\ r.action \in {"BITTI", "bitti"}
EventSet == w_event # "none" /\ flags[w_event]

\* the INVALID_COORDS entries at the end of history: the rejections of the current step
RECURSIVE InvalidTailOf(_)
InvalidTailOf(h) ==
    IF h = <<>> \/ ~IsInvalidEntry(h[Len(h)]) THEN 0
    ELSE 1 + InvalidTailOf(SubSeq(h, 1, Len(h) - 1))
InvalidTail == InvalidTailOf(history)

\* C1: every CLICK, DOUBLE_CLICK or RIGHT_CLICK handed to execute_action, whether the
\* call is about to be made or has returned, carries x and y that are numbers in [0,1].
C1_PointerActionsValid ==
    /\ \A i \in 1..Len(executed) : PointerOk(executed[i])
    /\ pc = "exec" => PointerOk(out)

\* a DOUBLE_CLICK was executed in a step that first rejected a pointer response
C1_Witness ==
    /\ Len(executed) >= 1
    /\ Upper(executed[Len(executed)].action) = "DOUBLE_CLICK"
    /\ Len(history) >= 2
    /\ IsInvalidEntry(history[Len(history) - 1])

\* C2: a step's pacing delay, capture, model calls and actuation happen only after the
\* stop check of that step has passed; a check that finds the Event set returns STOPPED
\* at once, and after STOPPED no capture, model, guard or actuation call is made.
C2_StopCheckedFirst ==
    /\ [](pc \in {"pace", "capture", "ask", "guard", "exec"} => checked = step)
    /\ [][(ncap' # ncap \/ nmodel' # nmodel \/ executed' # executed) => checked = step]_vars
    /\ [][checked' # checked =>
            pc = "top" /\ ~EventSet /\ UNCHANGED <<ncap, nmodel, nguard, executed>>]_vars
    /\ [][(pc = "top" /\ EventSet /\ pc' # pc) =>
            /\ result' = "STOPPED" /\ pc' = "ret"
            /\ UNCHANGED <<ncap, nmodel, nguard, executed, history, step>>]_vars
    /\ [][result = "STOPPED" =>
            UNCHANGED <<result, ncap, nmodel, nguard, executed, history, step>>]_vars

\* the run returned STOPPED at the head of a later step, after executing an action
C2_Witness == result = "STOPPED" /\ Len(executed) >= 1 /\ step = Len(executed) + 1

\* C4: a step never sees more than MODEL_RETRY + 1 rejected pointer responses; when it
\* has seen that many it has made exactly MODEL_RETRY + 1 model calls and no actuation
\* call, it makes no further call, and the run returns ERROR.
C4_RetriesExhausted ==
    /\ InvalidTail <= MODEL_RETRY + 1
    /\ nask <= MODEL_RETRY + 1
    /\ InvalidTail = MODEL_RETRY + 1 =>
          /\ nask = MODEL_RETRY + 1
          /\ pc \in {"guard", "ret"}
          /\ out = NoneOut
          /\ Len(executed) = step - 1
          /\ pc = "ret" => result = "ERROR(no valid action)"
    /\ result = "ERROR(no valid action)" => InvalidTail = MODEL_RETRY + 1

\* three invalid CLICK responses in the second step ended the run with ERROR
C4_Witness ==
    /\ result = "ERROR(no valid action)"
    /\ step = 2
    /\ nask = 3
    /\ \A i \in (Len(history) - 2)..Len(history) :
          IsInvalidEntry(history[i]) /\ history[i].raw.action = "CLICK"

\* C5: a response of the done kind, on a first attempt or a retry, ends the run with
\* DONE(BITTI) in that very step of the loop: history, the executed actions, the guard
\* calls and the step counter are left as they were; no done action is ever in history
\* or executed; a run whose first response is done ends at step 1 with no actuation.
C5_DoneReturnsAtOnce ==
    /\ [][(nmodel' = nmodel + 1 /\ resp' # resp /\ IsDoneKind(resp')) =>
            /\ result' = "DONE(BITTI)" /\ pc' = "ret"
            /\ UNCHANGED <<history, executed, nguard, step>>]_vars
    /\ [](result = "DONE(BITTI)" => IsDoneKind(resp) /\ Len(executed) = step - 1)
    /\ [](\A i \in 1..Len(history) : ~IsDoneKind(history[i]))
    /\ [](\A i \in 1..Len(executed) : ~IsDoneKind(executed[i]))
    /\ []((result = "DONE(BITTI)" /\ nmodel = 1) => step = 1 /\ executed = <<>> /\ nguard = 0)

\* the done kind arrived on a retry of the second step
C5_Witness == result = "DONE(BITTI)" /\ step = 2 /\ nask = 2 /\ InvalidTail = 1

\* C6: never more than MAX_STEPS actions are executed; the run goes on while fewer
\* have been and nothing else ended it; a run that was not stopped, saw no done kind,
\* no exhausted retries, no repeat and no failure returns DONE(max-steps) having
\* executed exactly MAX_STEPS actions.
C6_MaxSteps ==
    /\ Len(executed) <= MAX_STEPS
    /\ result = "DONE(max-steps)" => Len(executed) = MAX_STEPS /\ step = MAX_STEPS + 1
    /\ Len(executed) = MAX_STEPS => result = "DONE(max-steps)"
    /\ (pc = "ret" /\ raised = "" /\
        result \notin {"STOPPED", "DONE(BITTI)", "ERROR(no valid action)", "DONE(repeat-guard)"})
          => result = "DONE(max-steps)"

\* a run reached the step limit although one of its steps needed a retry
C6_Witness == result = "DONE(max-steps)" /\ Len(history) > MAX_STEPS

\* the results run_single_command can return
TerminalResults ==
    {"STOPPED", "DONE(BITTI)", "DONE(repeat-guard)", "ERROR(no valid action)", "DONE(max-steps)"}

\* C7: when every capture, model and actuation call has returned, a run that is over
\* has returned one of the terminal results, after at most MAX_STEPS * (MODEL_RETRY + 1)
\* model calls.
C7_TerminalResult ==
    (pc = "ret" /\ raised \notin {"capture", "model", "actuation"}) =>
        /\ result \in TerminalResults
        /\ nmodel <= MAX_STEPS * (MODEL_RETRY + 1)

\* C9: when the Repeat Guard signals stop for the accepted action, the loop's next step
\* returns DONE(repeat-guard) and leaves history and the executed actions as they were;
\* a run that returned DONE(repeat-guard) has executed and recorded only the actions of
\* its earlier steps.
C9_RepeatGuardStops ==
    /\ [][(pc = "guard" /\ out # NoneOut /\ should_stop_on_repeat(GuardArg(history), out) /\ pc' # pc) =>
            /\ result' = "DONE(repeat-guard)" /\ pc' = "ret"
            /\ UNCHANGED <<history, executed, step>>]_vars
    /\ [](result = "DONE(repeat-guard)" =>
            /\ out # NoneOut /\ should_stop_on_repeat(GuardArg(history), out)
            /\ Len(executed) = step - 1
            /\ history[Len(history)] = executed[Len(executed)])
    /\ [][result = "DONE(repeat-guard)" => UNCHANGED <<result, history, executed>>]_vars

\* the guard stopped a third click that jittered inside the tolerance
C9_Witness ==
    /\ result = "DONE(repeat-guard)"
    /\ Len(executed) = 2
    /\ IsPointer(out)
    /\ out.x # executed[2].x

(***************************************************************************)
(* The Repeat Guard on its own: clicks fed to it one after the other, each *)
(* one it lets pass appended to the history, as the loop does              *)
(***************************************************************************)
\* how many clicks are fed
GuardLen == 3

GuardPoints == {500, 506, 510, 520, 800} \X {500, 510}

Click(p) == Resp("CLICK", Num(p[1]), Num(p[2]), Absent, "")

Feed(c) ==
    /\ pc = "feed"
    /\ Len(history) < GuardLen
    /\ out' = c
    /\ nguard' = nguard + 1
    /\ guarded' = GuardArg(history)
    /\ IF should_stop_on_repeat(GuardArg(history), c)
       THEN /\ pc' = "fed_stop"
            /\ UNCHANGED history
       ELSE /\ history' = Append(history, c)
            /\ UNCHANGED pc
    /\ UNCHANGED <<step, attempt, result, raised, resp, asked, executed, ncap, nmodel, nask, checked>>
    /\ UNCHANGED <<viewVars, pureVars, fe, menu, w_event, stop_step, flags, guiVars>>

InitGuard ==
    /\ fe = "main"
    /\ menu = 1
    /\ pc = "feed"
    /\ LoopEntry
    /\ w_event = "none"
    /\ stop_step = -1
    /\ stop_event = "none"
    /\ flags = [i \in EventIds |-> FALSE]
    /\ nworkers = 0
    /\ last_log = ""
    /\ backend = "both"
    /\ report = ""
    /\ call = NoCall
    /\ ret = NoRet
    /\ ViewConstructed
    /\ WindowIdle
    /\ view = TRUE
    /\ quit = FALSE

SpecGuard == InitGuard /\ [][\E p \in GuardPoints : Feed(Click(p))]_vars

\* two clicks at the same coordinates, within the tolerance
Near(a, b) ==
    /\ Abs(a.x.n - b.x.n) <= REPEAT_TOL
    /\ Abs(a.y.n - b.y.n) <= REPEAT_TOL

\* C10: three consecutive clicks at the same coordinates (pairwise within the
\* tolerance) never all pass the guard: it signals stop at the third at the latest;
\* and when it signals stop, the candidate and the two clicks before it are not
\* pairwise more than the tolerance apart.
C10_RepeatGuard ==
    /\ \A i \in 1..(Len(history) - 2) :
          ~(/\ Near(history[i], history[i + 1])
            /\ Near(history[i], history[i + 2])
            /\ Near(history[i + 1], history[i + 2]))
    /\ pc = "fed_stop" =>
          /\ Len(history) >= 2
          /\ ~(/\ ~Near(history[Len(history) - 1], history[Len(history)])
               /\ ~Near(history[Len(history) - 1], out)
               /\ ~Near(history[Len(history)], out))

\* the guard stopped the third of three clicks that differ within the tolerance
C10_Witness ==
    /\ pc = "fed_stop"
    /\ Len(history) = 2
    /\ history[1].x # history[2].x
    /\ history[2].x # out.x
    /\ history[1].x # out.x

(***************************************************************************)
(* Properties of the window's run and stop handlers                        *)
(***************************************************************************)
RunOver == pc \in {"ret", "idle"}

\* C3: _on_stop only sets the Event: the worker's step in progress goes on (its model
\* call, guard and actuation are untouched, and STOPPED is returned from the loop head
\* alone); no step after the one in progress is started; the run ends at the next step
\* boundary with STOPPED, unless the step in progress ended it (done, ERROR, repeat
\* guard, the step limit, or a failure raised in that step).
C3_CooperativeStop ==
    /\ [][(\E e \in EventIds : ~flags[e] /\ flags'[e]) =>
            UNCHANGED <<loopVars, w_event, nworkers, stop_event>>]_vars
    /\ [][(result' = "STOPPED" /\ result # "STOPPED") => pc = "top"]_vars
    /\ [](stop_step >= 0 => checked <= stop_step /\ ncap <= stop_step
                            /\ Len(executed) <= stop_step)
    /\ []((RunOver /\ stop_step >= 0) =>
            \/ /\ result = "STOPPED"
               /\ step = stop_step + 1
               /\ Len(executed) = stop_step
            \/ /\ result \in {"DONE(BITTI)", "ERROR(no valid action)", "DONE(repeat-guard)"}
               /\ step = stop_step
            \/ /\ result = "DONE(max-steps)"
               /\ stop_step = MAX_STEPS
               /\ Len(executed) = MAX_STEPS
            \/ /\ raised # ""
               /\ step = stop_step)

\* the Event is set in the middle of step 2, after a retry, and the worker is about to
\* call execute_action for that step
C3_Witness ==
    /\ pc = "exec"
    /\ step = 2
    /\ stop_step = 2
    /\ w_event # "none"
    /\ flags[w_event]
    /\ nask = 2

\* C8: never two workers alive; while one is alive no step starts another, replaces
\* self.stop_event or clears its Event; a run request refused because a worker is
\* alive changes nothing but the log; a worker starts only in the step of the run
\* request that was accepted, so nothing is kept for later.
C8_SingleWorker ==
    /\ [](nworkers <= 1)
    /\ [](nworkers = 1 <=> pc # "idle")
    /\ [][nworkers >= 1 =>
            /\ nworkers' <= nworkers
            /\ stop_event' = stop_event
            /\ stop_event # "none"
            /\ flags[stop_event] => flags'[stop_event]]_vars
    /\ [][(nworkers >= 1 /\ last_log' = "busy" /\ last_log # "busy") =>
            UNCHANGED <<viewVars, pureVars, fe, menu, loopVars, w_event, stop_step, flags,
                        stop_event, nworkers, backend, quit>>]_vars
    /\ [][nworkers' > nworkers =>
            nworkers = 0 /\ pc = "idle" /\ pc' = "start" /\ last_log' = "started"]_vars

\* a run request was refused while the worker waited for the model
C8_Witness == nworkers = 1 /\ pc = "ask" /\ last_log = "busy" /\ nmodel >= 1

(***************************************************************************)
(* Properties of the retry loop                                            *)
(***************************************************************************)
\* the response r is a pointer action whose coordinates the validator refuses
Rejected(r) ==
    /\ r # NoneOut
    /\ IsPointer(r)
    /\ ~extract_xy(fe, r).raised
    /\ ~validate_xy(extract_xy(fe, r).x, extract_xy(fe, r).y)

InvalidEntryOf(r) == [action |-> "INVALID_COORDS", raw |-> r]
CountInvalid(h) == Cardinality({i \in 1..Len(h) : IsInvalidEntry(h[i])})

OtherKind(r) ==
    /\ r # NoneOut
    /\ Upper(r.action) \notin {"CLICK", "DOUBLE_CLICK", "RIGHT_CLICK", "BITTI"}

\* C12: a model call that returns a response of another kind accepts it as it is, in
\* that very pass of the retry loop, and appends nothing to history; the loop asks
\* again within a step only after a rejected pointer response, so a step whose first
\* response is of another kind makes one model call; and a run ends in ERROR only on
\* a rejected pointer response.
C12_OtherKindsAccepted ==
    /\ [][(nmodel' = nmodel + 1 /\ raised' = "" /\ OtherKind(resp')) =>
            /\ out' = resp' /\ pc' = "guard"
            /\ UNCHANGED <<history, result, attempt>>]_vars
    /\ []((pc = "ask" /\ nask >= 1) => Rejected(resp))
    /\ []((pc \in {"guard", "exec"} /\ OtherKind(resp)) =>
            out = resp /\ (nask = 1 => InvalidTail = 0))
    /\ [](result = "ERROR(no valid action)" => Rejected(resp))

\* a TYPE response whose x is outside [0,1] was accepted on the first response of the
\* second step and is about to be executed
C12_Witness ==
    /\ pc = "exec"
    /\ step = 2
    /\ nask = 1
    /\ out = rType
    /\ InvalidTail = 0

(***************************************************************************)
(* Properties of failures                                                  *)
(***************************************************************************)
CallFailures == {"capture", "model", "actuation"}

\* C13: when capture_screen, ask_next_action or execute_action raises, the run is left
\* in that very step of the loop, with no result, the step counter, history and the
\* executed actions as they were, so history holds the actions of the earlier steps
\* alone; from then on the run makes no capture, model, guard
\* or actuation call and returns no result; and the worker emits the error line, not
\* finished, for it, while a run that returned a result is reported with finished.
C13_FailurePropagates ==
    /\ [][(raised' # raised /\ raised' \in CallFailures) =>
            /\ pc' = "ret" /\ result' = ""
            /\ UNCHANGED <<step, history, executed, nguard>>]_vars
    /\ [][(raised \in CallFailures /\ raised' # "") =>
            UNCHANGED <<raised, result, step, history, executed,
                        ncap, nmodel, nguard>>]_vars
    /\ [](raised \in CallFailures => result = "" /\ pc \in {"ret", "idle"})
    /\ [](raised \in CallFailures =>
            /\ Len(executed) = step - 1
            /\ Len(history) - CountInvalid(history) = step - 1)
    /\ []((pc = "idle" /\ raised \in CallFailures) => report = "error")
    /\ []((pc = "idle" /\ report = "finished") => raised = "" /\ result \in TerminalResults)

\* execute_action raised in the second step of a run started from the window, and the
\* worker has emitted the error line
C13_Witness ==
    /\ pc = "idle"
    /\ raised = "actuation"
    /\ report = "error"
    /\ step = 2
    /\ Len(executed) = 1
    /\ Len(history) = 1

(***************************************************************************)
(* Functions called on their own: the loop and the window stay as they     *)
(* are after construction                                                  *)
(***************************************************************************)
\* no run and no worker
Quiescent ==
    /\ menu = 1
    /\ pc = "idle"
    /\ LoopEntry
    /\ w_event = "none"
    /\ stop_step = -1
    /\ stop_event = "none"
    /\ flags = [i \in EventIds |-> FALSE]
    /\ nworkers = 0
    /\ last_log = ""
    /\ backend = "both"
    /\ report = ""
    /\ quit = FALSE
    /\ ViewConstructed
    /\ WindowIdle
    /\ view = TRUE

\* the call returns v
Return(v) ==
    /\ ret = NoRet
    /\ ret' = [v |-> v]
    /\ UNCHANGED <<viewVars, call, fe, menu, loopVars, w_event, stop_step, flags, guiVars>>

SeqsUpTo(S, n) == UNION {[1..m -> S] : m \in 0..n}

(***************************************************************************)
(* trim_history called on histories of every length around the window      *)
(***************************************************************************)
\* the longest history trimmed, and the largest window
MaxTrimLen == 4
MaxKeep == 5

TrimEntries == {rClickA, rType}

InitTrim ==
    /\ Quiescent
    /\ fe \in {"main", "mc"}
    /\ call \in [f : {"trim_history"}, h : SeqsUpTo(TrimEntries, MaxTrimLen), k : 0..MaxKeep]
    /\ ret = NoRet

TrimCall ==
    /\ call.f = "trim_history"
    /\ Return(trim_history(call.h, call.k))

SpecTrim == InitTrim /\ [][TrimCall]_vars

Min(a, b) == IF a <= b THEN a ELSE b

\* the last n entries of h, oldest first
Trailing(h, n) == [i \in 1..n |-> h[Len(h) - n + i]]

\* C14: trim_history(h, k), for k >= 0, has length min(len(h), k), is the trailing
\* entries of h in their order, and trimming it again with k gives the same sequence.
C14_TrimWindow ==
    (call.f = "trim_history" /\ ret # NoRet) =>
        /\ Len(ret.v) = Min(Len(call.h), call.k)
        /\ ret.v = Trailing(call.h, Min(Len(call.h), call.k))
        /\ trim_history(ret.v, call.k) = ret.v

(***************************************************************************)
(* _extract_xy called on mappings of every shape                           *)
(***************************************************************************)
\* what the x field or the y field of a mapping can hold
CodecFieldValues ==
    { Absent, NoneV, Str, Num(200), NumStr(400),
      List(<<Num(200), Num(600)>>),
      List(<<Num(0), Num(200), Num(400), Num(600)>>),
      List(<<Num(200)>>),
      List(<<Str, Num(200)>>),
      List(<<NumStr(200), Num(400)>>) }

\* what the position field can hold
CodecPositions ==
    { Absent, NoneV, Str, Num(200),
      List(<<Num(100), Num(900)>>),
      List(<<Num(600), Num(0), Num(1000), Num(400)>>),
      List(<<List(<<Num(-400), Num(0)>>), List(<<Num(0), Num(200)>>)>>),
      List(<<Num(100), Num(200), Num(300)>>),
      List(<<List(<<Str, Num(100)>>), List(<<Num(200), Num(300)>>)>>),
      List(<<Num(0), Str, Num(400), Num(600)>>) }

InitCodec ==
    /\ Quiescent
    /\ fe \in {"main", "mc"}
    /\ call \in [f : {"_extract_xy"},
                  out : {Resp("CLICK", x, y, pos, "") :
                            x \in CodecFieldValues, y \in CodecFieldValues,
                            pos \in CodecPositions}]
    /\ ret = NoRet

ExtractCall ==
    /\ call.f = "_extract_xy"
    /\ Return(extract_xy(fe, call.out))

SpecCodec == InitCodec /\ [][ExtractCall]_vars

\* a list of two or of four numbers
NumList(v) == IsList(v) /\ Len(v.l) \in {2, 4} /\ \A i \in 1..Len(v.l) : v.l[i].t = "num"
\* two nested pairs of numbers
NumPairs(v) ==
    /\ IsList(v) /\ Len(v.l) = 2
    /\ \A i \in 1..2 : /\ v.l[i].t = "list" /\ Len(v.l[i].l) = 2
                         /\ \A j \in 1..2 : v.l[i].l[j].t = "num"
WellFormedPos(v) == NumList(v) \/ NumPairs(v)

\* a field that is missing, or holds null, a string that is no number, or a list of
\* unsupported length or with an element that is no number
Malformed(v) == v.t \in {"absent", "none", "str"} \/ (IsList(v) /\ ~NumList(v))
MalformedPos(v) == v.t \in {"absent", "none", "str"} \/ (IsList(v) /\ ~WellFormedPos(v))

\* the point a list of two or of four numbers stands for
ListPoint(v) ==
    IF Len(v.l) = 2 THEN [raised |-> FALSE, x |-> v.l[1].n, y |-> v.l[2].n]
    ELSE [raised |-> FALSE, x |-> (v.l[1].n + v.l[3].n) \div 2,
                            y |-> (v.l[2].n + v.l[4].n) \div 2]
\* the centre of two nested pairs
PairsPoint(v) ==
    [raised |-> FALSE, x |-> (v.l[1].l[1].n + v.l[2].l[1].n) \div 2,
                       y |-> (v.l[1].l[2].n + v.l[2].l[2].n) \div 2]
PosPoint(v) == IF NumList(v) THEN ListPoint(v) ELSE PairsPoint(v)

CodecReturned == call.f = "_extract_xy" /\ ret # NoRet

\* C15: _extract_xy raises for no mapping, and when position, x and y are each missing
\* or malformed it returns (0.5, 0.5).
C15_CodecNeverRaises ==
    CodecReturned =>
        /\ ~ret.v.raised
        /\ (MalformedPos(call.out.position) /\ Malformed(call.out.x) /\ Malformed(call.out.y))
              => ret.v = [raised |-> FALSE, x |-> HALF, y |-> HALF]

\* the mapping holds one of the encodings in numbers: in position, or, without a
\* position, in x or in y
PosEncoded == WellFormedPos(call.out.position)
NoPosition == call.out.position.t \in {"absent", "none"}
ListInX == NoPosition /\ NumList(call.out.x)
ListInY == NoPosition /\ ~IsList(call.out.x) /\ NumList(call.out.y)
ScalarXY ==
    /\ call.out.position.t = "absent"
    /\ call.out.x.t = "num" /\ call.out.y.t = "num"

\* C16: scalar x and y give (x, y); a list [x, y] gives (x, y), a box [x1, y1, x2, y2]
\* its centre and a nested pair [[x1, y1], [x2, y2]] the centre of the two points,
\* in position; and a list or a box gives the same point when it is held by x or y.
C16_CodecPoints ==
    CodecReturned =>
        /\ ScalarXY =>
              ret.v = [raised |-> FALSE, x |-> call.out.x.n, y |-> call.out.y.n]
        /\ PosEncoded => ret.v = PosPoint(call.out.position)
        /\ ListInX => ret.v = ListPoint(call.out.x)
        /\ ListInY => ret.v = ListPoint(call.out.y)

\* the codec returned the centre (0.8, 0.2) of the box held by position
C16_Witness ==
    /\ CodecReturned
    /\ call.out.position = List(<<Num(600), Num(0), Num(1000), Num(400)>>)
    /\ ret.v = [raised |-> FALSE, x |-> 800, y |-> 200]

\* x and y are each missing, a number, or a list of two or four numbers, and not both
\* missing
XYUsable ==
    /\ \A v \in {call.out.x, call.out.y} : v.t \in {"absent", "num"} \/ NumList(v)
    /\ ~(call.out.x.t = "absent" /\ call.out.y.t = "absent")

\* the point x and y stand for: the list in x, else the list in y, else the scalars
XYPoint ==
    IF NumList(call.out.x) THEN ListPoint(call.out.x)
    ELSE IF NumList(call.out.y) THEN ListPoint(call.out.y)
    ELSE [raised |-> FALSE,
          x |-> IF call.out.x.t = "absent" THEN HALF ELSE call.out.x.n,
          y |-> IF call.out.y.t = "absent" THEN HALF ELSE call.out.y.n]

\* C17: a well-formed position decides the point whatever x and y hold; when position
\* is missing or not well-formed, the point comes from x and y, the rules for a list
\* of two and of four applied to x and, failing that, to y.
C17_ResolutionOrder ==
    CodecReturned =>
        /\ PosEncoded => ret.v = PosPoint(call.out.position)
        /\ (~PosEncoded /\ XYUsable) => ret.v = XYPoint

(***************************************************************************)
(* Properties of the validator in the loop                                 *)
(***************************************************************************)
\* the point the running codec returns for r lies in [0,1] x [0,1]
PointInUnit(r) ==
    /\ 0 <= extract_xy(fe, r).x /\ extract_xy(fe, r).x <= ONE
    /\ 0 <= extract_xy(fe, r).y /\ extract_xy(fe, r).y <= ONE

\* the response r with the codec's point written into x and y
WithPoint(r) == [r EXCEPT !.x = Num(extract_xy(fe, r).x), !.y = Num(extract_xy(fe, r).y)]

\* C18: of the points the codec returns for pointer responses, the loop's validator
\* accepts those with both components in [0,1], the values 0 and 1 included, and
\* rejects those with a component below 0 or above 1; an accepted response becomes the
\* step's action with the codec's point written into it, with no further check of its
\* coordinates, and the action executed is that one.
C18_ValidatorGate ==
    /\ [][(nmodel' = nmodel + 1 /\ raised' = "" /\ resp' # NoneOut /\ IsPointer(resp')) =>
            IF PointInUnit(resp')
            THEN /\ out' = WithPoint(resp') /\ pc' = "guard"
                 /\ UNCHANGED <<history, result>>
            ELSE /\ out' = NoneOut
                 /\ history' = Append(history, InvalidEntryOf(resp'))]_vars
    /\ []((pc \in {"guard", "exec"} /\ out # NoneOut /\ IsPointer(out)) =>
            PointInUnit(resp) /\ out = WithPoint(resp))
    /\ [][executed' # executed =>
            pc = "exec" /\ executed' = Append(executed, out)]_vars

\* a RIGHT_CLICK at the corner (1.0, 0.0) was executed after a DOUBLE_CLICK at
\* (-0.1, 0.9) had been rejected in the same step
C18_Witness ==
    /\ Len(executed) >= 1
    /\ executed[Len(executed)].x = Num(ONE)
    /\ executed[Len(executed)].y = Num(0)
    /\ Len(history) >= 2
    /\ history[Len(history) - 1] = InvalidEntryOf(rDoubleBad)

(***************************************************************************)
(* VMView._pos_to_norm, the mouse handlers that forward its point, and     *)
(* draw_preview.  A normalized coordinate is kept as the exact fraction    *)
(* n/d of the division the source makes in floats.                         *)
(***************************************************************************)
\* the largest offset of the draw rectangle, and its largest width and height
MaxOff == 2
MaxDraw == 3

\* self._draw_rect is None
NoRect == [none |-> TRUE]
Rect(dx, dy, dw, dh) == [none |-> FALSE, dx |-> dx, dy |-> dy, dw |-> dw, dh |-> dh]
\* _pos_to_norm returned None
NoneNorm == [none |-> TRUE]
Frac(n, d) == [n |-> n, d |-> d]
Norm(x, y) == [none |-> FALSE, x |-> x, y |-> y]

\* the right and bottom edges taken for part of the drawn region
pos_to_norm_inclusive(pm, rect, x, y) ==
    IF ~pm \/ rect = NoRect THEN NoneNorm
    ELSE IF rect.dw <= 0 \/ rect.dh <= 0 THEN NoneNorm
    ELSE IF x < rect.dx \/ y < rect.dy \/ x > rect.dx + rect.dw \/ y > rect.dy + rect.dh
         THEN NoneNorm
    ELSE Norm(Frac(x - rect.dx, rect.dw), Frac(y - rect.dy, rect.dh))

\* VMView._pos_to_norm(x, y), pm being "self._pm is set"
pos_to_norm(pm, rect, x, y) ==
    IF ~pm \/ rect = NoRect THEN NoneNorm
    ELSE IF rect.dw <= 0 \/ rect.dh <= 0 THEN NoneNorm
    ELSE IF x < rect.dx \/ y < rect.dy \/ x >= rect.dx + rect.dw \/ y >= rect.dy + rect.dh
         THEN NoneNorm
    ELSE Norm(Frac(x - rect.dx, rect.dw), Frac(y - rect.dy, rect.dh))

Max(a, b) == IF a >= b THEN a ELSE b

\* int(max(0.0, min(1.0, v)) * max(0, size - 1)) of draw_preview, v being n/d, d > 0
preview_pixel(v, size) ==
    IF v.n <= 0 THEN 0
    ELSE IF v.n >= v.d THEN Max(0, size - 1)
    ELSE (v.n * Max(0, size - 1)) \div v.d

\* the two axes exchanged
draw_preview_swapped(w, h, x, y) == [px |-> preview_pixel(y, w), py |-> preview_pixel(x, h)]

\* draw_preview(img, x, y, ...): the pixel marked on an image of w by h
draw_preview(w, h, x, y) == [px |-> preview_pixel(x, w), py |-> preview_pixel(y, h)]

ViewRects ==
    {NoRect} \cup {Rect(dx, dy, dw, dh) : dx \in 0..MaxOff, dy \in 0..MaxOff,
                                          dw \in 0..MaxDraw, dh \in 0..MaxDraw}
\* the pointer positions of mouse events: inside, on and outside the widget's edges
ViewPixels == (-1)..(MaxOff + MaxDraw)

InitView ==
    /\ Quiescent
    /\ fe \in {"main", "mc"}
    /\ call \in [f : {"_pos_to_norm"}, pm : BOOLEAN, rect : ViewRects,
                  x : ViewPixels, y : ViewPixels]
    /\ ret = NoRet

PosToNormCall ==
    /\ call.f = "_pos_to_norm"
    /\ Return(pos_to_norm(call.pm, call.rect, call.x, call.y))

\* mousePressEvent, mouseMoveEvent: if not mapped: return; else the point is sent on
\* with sandbox.mouse_move_norm(nx, ny) or drag_to_norm(nx, ny, btn)
MouseForward ==
    /\ call.f = "_pos_to_norm"
    /\ ret # NoRet
    /\ ret.v # NoneNorm
    /\ call' = [f |-> "mouse_move_norm", x |-> ret.v.x, y |-> ret.v.y, src |-> call]
    /\ ret' = NoRet
    /\ UNCHANGED <<viewVars, fe, menu, loopVars, w_event, stop_step, flags, guiVars>>

\* draw_preview called with the point _pos_to_norm returned, on an image of w by h
PreviewCall(w, h) ==
    /\ call.f = "_pos_to_norm"
    /\ ret # NoRet
    /\ ret.v # NoneNorm
    /\ call' = [f |-> "draw_preview", w |-> w, h |-> h, x |-> ret.v.x, y |-> ret.v.y,
                src |-> call]
    /\ ret' = [v |-> draw_preview(w, h, ret.v.x, ret.v.y)]
    /\ UNCHANGED <<viewVars, fe, menu, loopVars, w_event, stop_step, flags, guiVars>>

SpecView ==
    InitView /\ [][PosToNormCall \/ MouseForward
                    \/ \E w \in 1..MaxDraw, h \in 1..MaxDraw : PreviewCall(w, h)]_vars

\* the pixel (x, y) lies in the drawn region of the draw rectangle r
InDrawn(r, x, y) ==
    /\ r.dx <= x /\ x <= r.dx + r.dw - 1
    /\ r.dy <= y /\ y <= r.dy + r.dh - 1

\* the fraction lies in [0,1)
InHalfOpenUnit(v) == v.d > 0 /\ 0 <= v.n /\ v.n < v.d

\* C19: _pos_to_norm returns None without a frame, without a draw rectangle, with a
\* width or height that is not positive, and for a pixel outside the drawn region;
\* otherwise it returns ((px-dx)/dw, (py-dy)/dh), both in [0,1); and every point a
\* mouse handler sends on lies in [0,1) x [0,1).
C19_PosToNorm ==
    /\ (call.f = "_pos_to_norm" /\ ret # NoRet) =>
          IF \/ ~call.pm
             \/ call.rect = NoRect
             \/ call.rect.dw <= 0
             \/ call.rect.dh <= 0
             \/ ~InDrawn(call.rect, call.x, call.y)
          THEN ret.v = NoneNorm
          ELSE /\ ret.v # NoneNorm
               /\ ret.v.x = [n |-> call.x - call.rect.dx, d |-> call.rect.dw]
               /\ ret.v.y = [n |-> call.y - call.rect.dy, d |-> call.rect.dh]
               /\ InHalfOpenUnit(ret.v.x) /\ InHalfOpenUnit(ret.v.y)
    /\ call.f = "mouse_move_norm" => InHalfOpenUnit(call.x) /\ InHalfOpenUnit(call.y)

\* a handler sent on the point of the last column of a letterboxed drawn region
C19_Witness ==
    /\ call.f = "mouse_move_norm"
    /\ call.src.rect.dx >= 1
    /\ call.src.x = call.src.rect.dx + call.src.rect.dw - 1
    /\ call.x.n = call.x.d - 1
    /\ call.x.n >= 1

\* draw_preview was given the point of a display pixel and an image as wide and as
\* high as the drawn region
RoundTrip ==
    /\ call.f = "draw_preview"
    /\ call.w = call.src.rect.dw
    /\ call.h = call.src.rect.dh

MaxEvents == 4
\* (now - self._last_move_ts) < 0.03
DEBOUNCE_MS == 30

\* the draw rectangle of the view, letterboxed by one column
PointerRect == Rect(1, 0, 2, 2)
\* the pointer positions of the events: one in the letterbox, one in the drawn region
PointerPixels == {<<0, 0>>, <<2, 1>>}
\* the Qt buttons of the events, "back" standing for every button the handler has no
\* number for
QtButtons == {"left", "right", "back"}
\* the time that passes before a move event, in milliseconds
MoveGaps == {0, 20, 30}

\* mousePressEvent: Left -> 1, Right -> 3, Middle -> 2, any other button -> None (0)
ButtonOf(b) ==
    CASE b = "left" -> 1
      [] b = "right" -> 3
      [] b = "middle" -> 2
      [] OTHER -> 0

\* one call of a sandbox method by the handler h at the time t
SandboxCall(h, f, p, btn, t) == [h |-> h, f |-> f, p |-> p, btn |-> btn, t |-> t]
\* one event of the view
ViewEvent(k, b, px, dt) == [k |-> k, b |-> b, px |-> px, dt |-> dt]

\* self._pos_to_norm(int(e.position().x()), int(e.position().y()))
Mapped(px) == pos_to_norm(TRUE, PointerRect, px[1], px[2])

\* the move handler without its debounce
DebouncedNever(t, last) == FALSE

\* mouseMoveEvent: if (now - self._last_move_ts) < 0.03: return
Debounced(t, last) == t - last < DEBOUNCE_MS

\* the move handler sending a plain move while a button is held
MoveCallPlain(mapped, btn, t) == SandboxCall("move", "mouse_move_norm", mapped, 0, t)

\* mouseMoveEvent: drag_to_norm(nx, ny, btn) while a button is held, mouse_move_norm
\* (nx, ny) otherwise
MoveCall(mapped, btn, t) ==
    IF btn # 0
    THEN SandboxCall("move", "drag_to_norm", mapped, btn, t)
    ELSE SandboxCall("move", "mouse_move_norm", mapped, 0, t)

\* mousePressEvent with the button b at the pixel px
MousePress(b, px) ==
    /\ Len(events) < MaxEvents
    /\ events' = Append(events, ViewEvent("down", b, px, 0))
    /\ IF ~input_enabled \/ Mapped(px) = NoneNorm \/ ButtonOf(b) = 0
       THEN UNCHANGED <<pressed_btn, calls>>
       ELSE /\ pressed_btn' = ButtonOf(b)
            /\ calls' = calls \o
                 << SandboxCall("press", "mouse_move_norm", Mapped(px), 0, now),
                    SandboxCall("press", "mouse_down", NoneNorm, ButtonOf(b), now) >>
    /\ UNCHANGED <<input_enabled, last_move_ts, now>>
    /\ UNCHANGED <<pureVars, fe, menu, loopVars, w_event, stop_step, flags, guiVars>>

\* mouseMoveEvent at the pixel px, dt milliseconds after the event before it
MouseMove(px, dt) ==
    /\ Len(events) < MaxEvents
    /\ events' = Append(events, ViewEvent("move", "none", px, dt))
    /\ now' = now + dt
    /\ IF ~input_enabled \/ Mapped(px) = NoneNorm \/ Debounced(now', last_move_ts)
       THEN UNCHANGED <<last_move_ts, calls>>
       ELSE /\ last_move_ts' = now'
            /\ calls' = Append(calls, MoveCall(Mapped(px), pressed_btn, now'))
    /\ UNCHANGED <<input_enabled, pressed_btn>>
    /\ UNCHANGED <<pureVars, fe, menu, loopVars, w_event, stop_step, flags, guiVars>>

\* mouseReleaseEvent for the button b, which the handler does not look at
MouseRelease(b) ==
    /\ Len(events) < MaxEvents
    /\ events' = Append(events, ViewEvent("up", b, <<0, 0>>, 0))
    /\ IF ~input_enabled \/ pressed_btn = 0
       THEN UNCHANGED <<pressed_btn, calls>>
       ELSE /\ pressed_btn' = 0
            /\ calls' = Append(calls, SandboxCall("release", "mouse_up", NoneNorm,
                                                  pressed_btn, now))
    /\ UNCHANGED <<input_enabled, last_move_ts, now>>
    /\ UNCHANGED <<pureVars, fe, menu, loopVars, w_event, stop_step, flags, guiVars>>

\* the window's busy handler writing vm_view.input_enabled = (not busy)
SetInputEnabled ==
    /\ Len(events) < MaxEvents
    /\ events' = Append(events, ViewEvent("input", "none", <<0, 0>>, 0))
    /\ input_enabled' = ~input_enabled
    /\ UNCHANGED <<pressed_btn, last_move_ts, now, calls>>
    /\ UNCHANGED <<pureVars, fe, menu, loopVars, w_event, stop_step, flags, guiVars>>

InitPointer ==
    /\ Quiescent
    /\ fe \in {"main", "mc"}
    /\ call = NoCall
    /\ ret = NoRet

SpecPointer ==
    InitPointer /\ [][\/ \E b \in QtButtons, px \in PointerPixels : MousePress(b, px)
                      \/ \E px \in PointerPixels, dt \in MoveGaps : MouseMove(px, dt)
                      \/ \E b \in QtButtons : MouseRelease(b)
                      \/ SetInputEnabled]_vars

\* the pixel lies in the drawn region of the view
Inside(px) == InDrawn(PointerRect, px[1], px[2])

\* the view, its input enabled, received a pointer-down of a button the handler has a
\* number for, two moves and a pointer-up, all in the drawn region, and nothing else
PressDragRelease ==
    /\ Len(events) = 4
    /\ events[1].k = "down" /\ ButtonOf(events[1].b) # 0 /\ Inside(events[1].px)
    /\ events[2].k = "move" /\ Inside(events[2].px)
    /\ events[3].k = "move" /\ Inside(events[3].px)
    /\ events[4].k = "up"

C22_Debounce ==
    /\ [](\A i, j \in 1..Len(calls) :
            (i < j /\ calls[i].h = "move" /\ calls[j].h = "move") =>
                calls[j].t - calls[i].t >= DEBOUNCE_MS)
    /\ [][(Len(events') = Len(events) + 1 /\ events'[Len(events')].k = "move"
           /\ now' - last_move_ts < DEBOUNCE_MS) =>
            UNCHANGED <<calls, last_move_ts, pressed_btn>>]_vars

\* of two moves in the drawn region 20 ms apart, with the left button held, the first
\* was sent on as a drag and the second was dropped
C22_Witness ==
    /\ Len(events) = 3
    /\ events[2].k = "move" /\ events[3].k = "move" /\ events[3].dt = 20
    /\ Inside(events[3].px)
    /\ input_enabled
    /\ pressed_btn = 1
    /\ Len(calls) = 3
    /\ calls[3].f = "drag_to_norm" /\ calls[3].t = last_move_ts
    /\ now = last_move_ts + 20

(***************************************************************************)
(* VMView.wheelEvent and VMView.keyPressEvent.  A key event is its Qt key, *)
(* its set of modifiers and its text; a control character of the text is   *)
(* written by its name in angle brackets.                                  *)
(***************************************************************************)
Keys ==
    {"F11", "Return", "Enter", "Tab", "Escape", "Backspace", "Delete", "Up", "Down",
     "Left", "Right", "Home", "End", "PageUp", "PageDown", "Space", "A", "F5"}
Modifiers == {"ctrl", "alt", "shift", "meta"}
Texts == {"", "a", "A", " ", "ab", "<CR>", "<TAB>", "<ESC>", "<BS>", "<DEL>", "<SOH>"}

\* str.isprintable() on the texts: true of the empty string, of letters and of the
\* space, false of control characters
IsPrintable(txt) == txt \in {"", "a", "A", " ", "ab"}
\* len(txt)
TextLen(txt) == IF txt = "" THEN 0 ELSE IF txt = "ab" THEN 2 ELSE 1
\* txt.lower()
Lower(txt) == IF txt = "A" THEN "a" ELSE txt

\* the text a key generates when pressed without a modifier
PlainText(key) ==
    CASE key \in {"Return", "Enter"} -> "<CR>"
      [] key = "Tab" -> "<TAB>"
      [] key = "Escape" -> "<ESC>"
      [] key = "Backspace" -> "<BS>"
      [] key = "Delete" -> "<DEL>"
      [] key = "Space" -> " "
      [] key = "A" -> "a"
      [] OTHER -> ""

\* keyPressEvent: special.get(e.key()), "" for None
Special(key) ==
    CASE key \in {"Return", "Enter"} -> "enter"
      [] key = "Tab" -> "tab"
      [] key = "Escape" -> "esc"
      [] key = "Backspace" -> "backspace"
      [] key = "Delete" -> "delete"
      [] key = "Up" -> "up"
      [] key = "Down" -> "down"
      [] key = "Left" -> "left"
      [] key = "Right" -> "right"
      [] key = "Home" -> "home"
      [] key = "End" -> "end"
      [] key = "PageUp" -> "pageup"
      [] key = "PageDown" -> "pagedown"
      [] key = "Space" -> "space"
      [] OTHER -> ""

\* one call of a sandbox method with its arguments
KeyCall(f, a) == [f |-> f, a |-> a]

\* the key handler with F11 treated as any other key
key_press_forwards_f11(enabled, key, mods, txt) ==
    IF ~enabled THEN <<>>
    ELSE IF "ctrl" \in mods /\ txt # "" /\ IsPrintable(txt)
         THEN << KeyCall("hotkey", <<"ctrl", Lower(txt)>>) >>
    ELSE IF txt # "" /\ IsPrintable(txt) /\ TextLen(txt) = 1
         THEN << KeyCall("type_text", <<txt>>) >>
    ELSE IF Special(key) # "" THEN << KeyCall("press_key", <<Special(key)>>) >>
    ELSE <<>>

\* the key handler without its Control branch
key_press_no_ctrl(enabled, key, mods, txt) ==
    IF ~enabled \/ key = "F11" THEN <<>>
    ELSE IF "alt" \in mods /\ key = "Tab"
         THEN << KeyCall("hotkey", <<"alt", "tab">>) >>
    ELSE IF txt # "" /\ IsPrintable(txt) /\ TextLen(txt) = 1
         THEN << KeyCall("type_text", <<txt>>) >>
    ELSE IF Special(key) # "" THEN << KeyCall("press_key", <<Special(key)>>) >>
    ELSE <<>>

\* keyPressEvent: the sandbox calls it makes, in order
key_press(enabled, key, mods, txt) ==
    IF ~enabled THEN <<>>
    ELSE IF key = "F11" THEN <<>>
    ELSE IF "ctrl" \in mods /\ txt # "" /\ IsPrintable(txt)
         THEN << KeyCall("hotkey", <<"ctrl", Lower(txt)>>) >>
    ELSE IF "alt" \in mods /\ key = "Tab"
         THEN << KeyCall("hotkey", <<"alt", "tab">>) >>
    ELSE IF txt # "" /\ IsPrintable(txt) /\ TextLen(txt) = 1
         THEN << KeyCall("type_text", <<txt>>) >>
    ELSE IF Special(key) # "" THEN << KeyCall("press_key", <<Special(key)>>) >>
    ELSE <<>>

\* wheelEvent: the sandbox calls it makes
wheel(enabled, delta) ==
    IF ~enabled THEN <<>> ELSE << KeyCall("scroll", <<delta>>) >>

\* the key and wheel events a view can be sent
InputEvents ==
    [f : {"keyPressEvent"}, key : Keys, mods : SUBSET Modifiers, txt : Texts]
        \cup [f : {"wheelEvent"}, delta : {-120, 120}]

\* the view is sent one event, before or after its input is switched
InitKeys ==
    /\ Quiescent
    /\ fe \in {"main", "mc"}
    /\ call \in InputEvents
    /\ ret = NoRet

\* the view handles the key event
KeyPress ==
    /\ call.f = "keyPressEvent"
    /\ ret = NoRet
    /\ ret' = [v |-> key_press(input_enabled, call.key, call.mods, call.txt),
               enabled |-> input_enabled]
    /\ UNCHANGED <<viewVars, call, fe, menu, loopVars, w_event, stop_step, flags, guiVars>>

\* the view handles the wheel event
Wheel ==
    /\ call.f = "wheelEvent"
    /\ ret = NoRet
    /\ ret' = [v |-> wheel(input_enabled, call.delta), enabled |-> input_enabled]
    /\ UNCHANGED <<viewVars, call, fe, menu, loopVars, w_event, stop_step, flags, guiVars>>

SpecKeys == InitKeys /\ [][KeyPress \/ Wheel \/ SetInputEnabled]_vars

\* the view handled a key event
KeyHandled == call.f = "keyPressEvent" /\ ret # NoRet

\* C23: a key event of F11 makes no sandbox call, whatever its modifiers and text;
\* every other key event makes at most one, and that one is hotkey, type_text or
\* press_key.
C23_FullscreenLocal ==
    KeyHandled =>
        /\ call.key = "F11" => ret.v = <<>>
        /\ Len(ret.v) <= 1
        /\ \A i \in 1..Len(ret.v) : ret.v[i].f \in {"hotkey", "type_text", "press_key"}

\* F11 arrived with Control held and a printable text while input was enabled
C23_Witness ==
    /\ KeyHandled
    /\ ret.enabled
    /\ call.key = "F11" /\ call.mods = {"ctrl"} /\ call.txt = "a"
    /\ ret.v = <<>>

\* a named key was pressed without a modifier, with the text it generates, while
\* input was enabled
NamedKeyPlain ==
    /\ KeyHandled
    /\ ret.enabled
    /\ Special(call.key) # ""
    /\ call.mods = {}
    /\ call.txt = PlainText(call.key)

\* C24: a named key pressed without a modifier is sent on as one press_key call with
\* the key's name from the table, and never as a type_text call.
C24_NamedKeys ==
    NamedKeyPlain => ret.v = << KeyCall("press_key", <<Special(call.key)>>) >>

\* a modifier was held with one printable character while input was enabled
ModifierWithChar ==
    /\ KeyHandled
    /\ ret.enabled
    /\ call.key # "F11"
    /\ call.mods # {}
    /\ IsPrintable(call.txt) /\ TextLen(call.txt) = 1

\* C25 as stated: for every modifier, a key event of the modifier with a printable
\* character is sent on as one hotkey call with the chord (modifier, lowercased
\* character), and not as a type_text call.
C25_EveryModifier ==
    ModifierWithChar =>
        \E m \in call.mods : ret.v = << KeyCall("hotkey", <<m, Lower(call.txt)>>) >>

\* C25, amended: a key event of Control with a printable character is sent on as one
\* hotkey call with the chord ("ctrl", lowercased character), and not as a type_text
\* call; a key event of other modifiers only is not sent on as a chord with the
\* character.
C25_ControlChord ==
    ModifierWithChar =>
        IF "ctrl" \in call.mods
        THEN ret.v = << KeyCall("hotkey", <<"ctrl", Lower(call.txt)>>) >>
        ELSE \A i \in 1..Len(ret.v) :
                ret.v[i].f = "hotkey" => ret.v[i].a = <<"alt", "tab">>

\* Control and Shift arrived with the text "A" and the chord (ctrl, a) was sent on
C25_Witness ==
    /\ ModifierWithChar
    /\ call.mods = {"ctrl", "shift"}
    /\ call.txt = "A"
    /\ ret.v = << KeyCall("hotkey", <<"ctrl", "a">>) >>

(***************************************************************************)
(* History of a run                                                        *)
(***************************************************************************)
\* h is the beginning of g
IsPrefix(h, g) == Len(h) <= Len(g) /\ SubSeq(g, 1, Len(h)) = h

\* the entries of h that are not tagged INVALID_COORDS, in their order
Untagged(h) == SelectSeq(h, LAMBDA e : ~IsInvalidEntry(e))

\* the run is between two steps: at the head of the loop, or returned at the step limit
StepBoundary == pc = "top" \/ result = "DONE(max-steps)"

C28_TrimOnlyForModel ==
    /\ [][nmodel' = nmodel + 1 =>
            /\ asked' = Trailing(history, Min(Len(history), KEEP_LAST))
            /\ IsPrefix(history, history')]_vars
    /\ [][nguard' = nguard + 1 => guarded' = history /\ history' = history]_vars

\* the guard was given a history of more than six entries, longer than the one the
\* model had been given for the same step
C28_Witness ==
    /\ nguard >= 1
    /\ pc \in {"exec", "ret"}
    /\ Len(guarded) > KEEP_LAST
    /\ guarded = history
    /\ Len(asked) = KEEP_LAST

(***************************************************************************)
(* The busy notifications of the window                                    *)
(***************************************************************************)
\* C26: the interval of the frame-refresh timer is 650 ms whenever a worker is active,
\* and 350 ms whenever none is active and no busy notification waits for delivery.
C26_IntervalFollowsWorker ==
    /\ WorkerAlive => interval = SLOW_MS
    /\ (~WorkerAlive /\ busyq = 0) => interval = FAST_MS

\* C29: from the start of a run until its end no input event of the view is sent on to
\* the sandbox.
C29_NoInputWhileRunning == WorkerAlive => human # "sent"

\* the worker is between its start and the end of run_single_command
WorkerRunning == pc \in {"start", "top", "pace", "capture", "ask", "guard", "exec", "ret"}

\* the controls and the input of the view are enabled and no worker is alive, so that
\* _on_run would start a run
Reenabled ==
    /\ ~WorkerAlive
    /\ ~ctl_busy
    /\ view => input_enabled

\* C30: busy(True) is emitted for every run before its worker begins, and nothing else
\* until run_single_command has ended; then busy(False) is emitted once, whether it
\* returned or raised, and the result notification only if it returned; and after a
\* run has been started the controls and the input of the view are enabled again, with
\* no worker alive, at some later time.
C30_BusyBracketsRun ==
    /\ [](WorkerRunning => emits = <<TRUE>>)
    /\ [][(pc = "ret" /\ pc' = "idle") =>
            /\ emits' = <<TRUE, FALSE>>
            /\ busyq' = busyq + 1
            /\ report' = "finished" <=> raised = ""]_vars
    /\ []((pc = "idle" /\ report # "") => emits = <<TRUE, FALSE>>)
    /\ [](report = "finished" => raised = "" /\ result # "")
    /\ (WorkerAlive ~> Reenabled)

\* a run that raised is over, its busy(False) has been delivered and the window is
\* ready for the next run
C30_Witness ==
    /\ pc = "idle"
    /\ raised # ""
    /\ report = "error"
    /\ emits = <<TRUE, FALSE>>
    /\ busyq = 0
    /\ Reenabled
    /\ view

(***************************************************************************)
(* Pressed-button tracking of the view                                     *)
(***************************************************************************)
\* the Qt button b is held down after the events ev: its last down or up is a down
HeldAfter(ev, b) ==
    LET I == {i \in 1..Len(ev) : ev[i].k \in {"down", "up"} /\ ev[i].b = b}
    IN  I # {} /\ ev[CHOOSE i \in I : \A j \in I : j <= i].k = "down"

\* the events are ones a pointer can make: a button goes down only when it is up and
\* up only when it is down
Physical(ev) ==
    \A i \in 1..Len(ev) :
        /\ ev[i].k = "down" => ~HeldAfter(SubSeq(ev, 1, i - 1), ev[i].b)
        /\ ev[i].k = "up" => HeldAfter(SubSeq(ev, 1, i - 1), ev[i].b)

\* the calls f of the sandbox for the button btn among the first n calls
CallsOf(f, btn, n) == Cardinality({i \in 1..n : calls[i].f = f /\ calls[i].btn = btn})

\* a mouse_down of btn has been sent on and no mouse_up of btn after it
Unmatched(btn) ==
    CallsOf("mouse_down", btn, Len(calls)) > CallsOf("mouse_up", btn, Len(calls))

\* C31: for every sequence of pointer-down, move and pointer-up events a pointer can
\* make, with input switched off and on in between: at the pointer-up of a button
\* whose button-down was sent on and not yet matched, one button-up for that button is
\* sent on, and a pointer-up sends nothing else; no button-up is sent on without an
\* unmatched button-down of the same button before it; and when no button is held
\* down the view records no held button.
C31_Balanced ==
    /\ [][(/\ Len(events') = Len(events) + 1
           /\ events'[Len(events')].k = "up"
           /\ Physical(events')) =>
            LET btn == ButtonOf(events'[Len(events')].b)
            IN  IF btn # 0 /\ Unmatched(btn)
                THEN /\ Len(calls') = Len(calls) + 1
                     /\ calls'[Len(calls')].f = "mouse_up"
                     /\ calls'[Len(calls')].btn = btn
                ELSE calls' = calls]_vars
    /\ [](\A n \in 0..Len(calls), btn \in {1, 2, 3} :
            CallsOf("mouse_up", btn, n) <= CallsOf("mouse_down", btn, n))
    /\ []((Physical(events) /\ \A b \in QtButtons : ~HeldAfter(events, b)) =>
            pressed_btn = 0)

(***************************************************************************)
(* The two copies of the codec                                             *)
(***************************************************************************)
\* C32: for every response, _extract_xy of gui_main.py and _extract_xy of
\* gui_mission_control.py return the same point or both fail: what the running front
\* end's copy returned is what either copy gives for the same response.
C32_CodecCopiesAgree ==
    (call.f = "_extract_xy" /\ ret # NoRet) =>
        /\ ret.v = extract_xy_main(call.out)
        /\ ret.v = extract_xy_mc(call.out)

====
